---- MODULE Spec2Model ----
(***************************************************************************)
(* The two template generators of scripts/: createLoanTemplate.py and      *)
(* createTestTemplate.py.  Each is a straight-line script that builds a    *)
(* python-docx document in memory, creates its output directory, saves the *)
(* document and prints a confirmation.  The model runs the scripts one     *)
(* statement at a time over a small shared file system.                    *)
(***************************************************************************)
EXTENDS Integers, Sequences, FiniteSets, TLC

VARIABLES
    running,   \* the generator whose process is alive, or "none"
    pc,        \* index of the next statement of the running script
    doc,       \* the Document being built: a sequence of blocks
    refs,      \* the script's variables bound to blocks and runs
    styles,    \* the document's 'Normal' style font
    fh,        \* the save's file handle: "closed" or "open"
    saves,     \* how many times the running script has called doc.save
    dirs,      \* the directories that exist
    locked,    \* the directories the process may not write to
    files,     \* path -> content, for the files that exist
    roFiles,   \* the files the process may not write to
    today,     \* the clock, in days after 30 November 2026
    runs,      \* how many processes have been started
    exit,      \* per generator: exit status of its last run, -1 before it ends
    err,       \* per generator: the exception that ended its last run
    stdout,    \* per generator: lines printed by its last run
    pre,       \* per generator: the file system its last run started from
    prev       \* per generator: the documents its runs have saved

vars == <<running, pc, doc, refs, styles, fh, saves, dirs, locked, files,
          roFiles, today, runs, exit, err, stdout, pre, prev>>

Generators == {"loan", "welcome"}

\* Bounds of the model.
MaxRuns == 2
MaxDays == 1

-----------------------------------------------------------------------------
\* Strings and paths

Front(s) == SubSeq(s, 1, Len(s) - 1)

RECURSIVE Repeat(_, _)
\* Python's  s * n
Repeat(s, n) == IF n = 0 THEN "" ELSE s \o Repeat(s, n - 1)

\* os.path.join on component sequences
Join(a, b) == a \o b

RECURSIVE Resolve(_)
\* The kernel's resolution of a path: ".." steps to the parent.
Resolve(p) ==
    IF p = <<>> THEN <<>>
    ELSE LET h == Resolve(Front(p))
             t == p[Len(p)]
         IN  IF t = ".." THEN (IF h = <<>> THEN <<>> ELSE Front(h))
             ELSE Append(h, t)

RECURSIVE PathStr(_)
\* A path as the text the script prints.
PathStr(p) ==
    IF p = <<>> THEN ""
    ELSE IF Len(p) = 1 THEN p[1]
    ELSE PathStr(Front(p)) \o "/" \o p[Len(p)]

\* os.path.dirname(__file__): the directory holding the scripts.
ScriptDir == <<"scripts">>

-----------------------------------------------------------------------------
\* The statements of the scripts.  Every statement that changes the document,
\* the file system or the console is one instruction; `line` is its line in
\* the script.  Statements that only bind a name to an existing object
\* (style = doc.styles['Normal'], output_dir = ...) are folded into the
\* instruction that uses the name.

Ins(line, op, var, text, val, r, c, rvar) ==
    [line |-> line, op |-> op, var |-> var, text |-> text, val |-> val,
     r |-> r, c |-> c, rvar |-> rvar]

SetFont(line, prop, val)          == Ins(line, "set_font", "", "", val, 0, 0, prop)
AddParagraph(line, var, text)     == Ins(line, "add_paragraph", var, text, "", 0, 0, "")
AddParagraphNow(line, var, text)  == Ins(line, "add_paragraph", var, text, "now", 0, 0, "")
AddHeading(line, var, text, lvl)  == Ins(line, "add_heading", var, text, lvl, 0, 0, "")
AddTable(line, var, rows, cols)   == Ins(line, "add_table", var, "", "", rows, cols, "")
SetAlignment(line, var, val)      == Ins(line, "set_alignment", var, "", val, 0, 0, "")
SetStyle(line, var, val)          == Ins(line, "set_style", var, "", val, 0, 0, "")
AddRun(line, var, text, rvar)     == Ins(line, "add_run", var, text, "", 0, 0, rvar)
SetRun(line, rvar, prop, val)     == Ins(line, "set_run", prop, "", val, 0, 0, rvar)
SetCellText(line, var, r, c, text) == Ins(line, "set_cell_text", var, text, "", r, c, "")
CellAddRun(line, var, r, c, text, rvar) == Ins(line, "cell_add_run", var, text, "", r, c, rvar)
Makedirs(line)                    == Ins(line, "makedirs", "", "", "", 0, 0, "")
Save(line)                        == Ins(line, "save", "", "", "", 0, 0, "")
PrintLine(line, text)             == Ins(line, "print", "", text, "", 0, 0, "")
PrintPath(line, text)             == Ins(line, "print", "", text, "path", 0, 0, "")

\* The bullet U+2022 of lines 34 and 36 is written "*".
Divider == Repeat("_", 80)

LoanLetterhead == <<
    SetFont(19, "name", "Calibri"),
    SetFont(20, "size", 11),
    AddParagraph(25, "header", ""),
    SetAlignment(26, "header", "CENTER"),
    AddRun(27, "header", "FINANCIAL SERVICES COMPANY", "run"),
    SetRun(28, "run", "bold", TRUE),
    SetRun(29, "run", "size", 16),
    SetRun(30, "run", "color", <<0, 51, 102>>),
    AddParagraph(32, "header2", ""),
    SetAlignment(33, "header2", "CENTER"),
    AddRun(34, "header2", "123 Main Street * Suite 500 * Anytown, ST 12345\n", "run2"),
    SetRun(35, "run2", "size", 9),
    AddRun(36, "header2", "Phone: (555) 123-4567 * Email: loans@financialservices.com", "run3"),
    SetRun(37, "run3", "size", 9),
    AddParagraph(39, "", Divider) >>

\* Faulty variant of LoanDate: the date paragraph is aligned only after the
\* next paragraph has been appended.
LoanDateLate == <<
    AddParagraph(44, "", ""),
    AddParagraphNow(45, "date_para", "Date: "),
    AddParagraph(48, "", ""),
    SetAlignment(46, "date_para", "RIGHT") >>

LoanDate == <<
    AddParagraph(44, "", ""),
    AddParagraphNow(45, "date_para", "Date: "),
    SetAlignment(46, "date_para", "RIGHT"),
    AddParagraph(48, "", "") >>

LoanTitle == <<
    AddHeading(53, "title", "LOAN APPLICATION SUMMARY", 1),
    SetAlignment(54, "title", "CENTER"),
    AddParagraph(56, "", "") >>

LoanApplicant == <<
    AddHeading(59, "", "Applicant Information", 2),
    AddTable(61, "applicant_table", 5, 2),
    SetStyle(62, "applicant_table", "Light Grid Accent 1"),
    SetCellText(64, "applicant_table", 0, 0, "Full Name:"),
    SetCellText(65, "applicant_table", 0, 1, "{{firstName}} {{lastName}}"),
    SetCellText(67, "applicant_table", 1, 0, "Email Address:"),
    SetCellText(68, "applicant_table", 1, 1, "{{email}}"),
    SetCellText(70, "applicant_table", 2, 0, "Phone Number:"),
    SetCellText(71, "applicant_table", 2, 1, "{{phone}}"),
    SetCellText(73, "applicant_table", 3, 0, "Date of Birth:"),
    SetCellText(74, "applicant_table", 3, 1, "{{dateOfBirth}}"),
    SetCellText(76, "applicant_table", 4, 0, "SSN (last 4 digits):"),
    SetCellText(77, "applicant_table", 4, 1, "XXX-XX-{{ssn}}"),
    AddParagraph(79, "", "") >>

\* Faulty variant of LoanEmployment: the table is created one row short.
LoanEmploymentShort == <<
    AddHeading(84, "", "Employment Information", 2),
    AddTable(86, "employment_table", 3, 2),
    SetStyle(87, "employment_table", "Light Grid Accent 1"),
    SetCellText(89, "employment_table", 0, 0, "Employment Status:"),
    SetCellText(90, "employment_table", 0, 1, "{{employmentStatus}}"),
    SetCellText(92, "employment_table", 1, 0, "Employer Name:"),
    SetCellText(93, "employment_table", 1, 1, "{{employerName}}"),
    SetCellText(95, "employment_table", 2, 0, "Job Title:"),
    SetCellText(96, "employment_table", 2, 1, "{{jobTitle}}"),
    SetCellText(98, "employment_table", 3, 0, "Annual Income:"),
    SetCellText(99, "employment_table", 3, 1, "${{annualIncome}}"),
    AddParagraph(101, "", "") >>

LoanEmployment == <<
    AddHeading(84, "", "Employment Information", 2),
    AddTable(86, "employment_table", 4, 2),
    SetStyle(87, "employment_table", "Light Grid Accent 1"),
    SetCellText(89, "employment_table", 0, 0, "Employment Status:"),
    SetCellText(90, "employment_table", 0, 1, "{{employmentStatus}}"),
    SetCellText(92, "employment_table", 1, 0, "Employer Name:"),
    SetCellText(93, "employment_table", 1, 1, "{{employerName}}"),
    SetCellText(95, "employment_table", 2, 0, "Job Title:"),
    SetCellText(96, "employment_table", 2, 1, "{{jobTitle}}"),
    SetCellText(98, "employment_table", 3, 0, "Annual Income:"),
    SetCellText(99, "employment_table", 3, 1, "${{annualIncome}}"),
    AddParagraph(101, "", "") >>

LoanRequest == <<
    AddHeading(106, "", "Loan Request Details", 2),
    AddTable(108, "loan_table", 3, 2),
    SetStyle(109, "loan_table", "Light Grid Accent 1"),
    SetCellText(111, "loan_table", 0, 0, "Requested Amount:"),
    CellAddRun(112, "loan_table", 0, 1, "${{loanAmount}}", "run"),
    SetRun(113, "run", "bold", TRUE),
    SetRun(114, "run", "size", 12),
    SetRun(115, "run", "color", <<0, 102, 0>>),
    SetCellText(117, "loan_table", 1, 0, "Loan Purpose:"),
    SetCellText(118, "loan_table", 1, 1, "{{loanPurpose}}"),
    SetCellText(120, "loan_table", 2, 0, "Preferred Term:"),
    SetCellText(121, "loan_table", 2, 1, "{{loanTerm}}"),
    AddParagraph(123, "", "") >>

\* Faulty variant of LoanAnalysis: the ratio placeholder lost a closing brace.
LoanAnalysisTypo == <<
    AddHeading(128, "", "Financial Analysis", 2),
    AddTable(130, "analysis_table", 3, 2),
    SetStyle(131, "analysis_table", "Light Grid Accent 1"),
    SetCellText(133, "analysis_table", 0, 0, "Monthly Income:"),
    SetCellText(134, "analysis_table", 0, 1, "${{debtToIncomeRatio.monthlyIncome}}"),
    SetCellText(136, "analysis_table", 1, 0, "Monthly Debt Payments:"),
    SetCellText(137, "analysis_table", 1, 1, "${{monthlyDebt}}"),
    SetCellText(139, "analysis_table", 2, 0, "Debt-to-Income Ratio:"),
    SetCellText(140, "analysis_table", 2, 1,
                "{{debtToIncomeRatio.ratio}% ({{debtToIncomeRatio.status}})"),
    AddParagraph(142, "", "") >>

LoanAnalysis == <<
    AddHeading(128, "", "Financial Analysis", 2),
    AddTable(130, "analysis_table", 3, 2),
    SetStyle(131, "analysis_table", "Light Grid Accent 1"),
    SetCellText(133, "analysis_table", 0, 0, "Monthly Income:"),
    SetCellText(134, "analysis_table", 0, 1, "${{debtToIncomeRatio.monthlyIncome}}"),
    SetCellText(136, "analysis_table", 1, 0, "Monthly Debt Payments:"),
    SetCellText(137, "analysis_table", 1, 1, "${{monthlyDebt}}"),
    SetCellText(139, "analysis_table", 2, 0, "Debt-to-Income Ratio:"),
    SetCellText(140, "analysis_table", 2, 1,
                "{{debtToIncomeRatio.ratio}}% ({{debtToIncomeRatio.status}})"),
    AddParagraph(142, "", "") >>

\* Faulty variant of LoanFooter: the footer carries a second date stamp.
LoanFooterDated == <<
    AddParagraph(147, "", Divider),
    AddParagraph(149, "", ""),
    AddParagraph(151, "disclaimer", ""),
    SetAlignment(152, "disclaimer", "CENTER"),
    AddRun(153, "disclaimer", "APPLICATION STATUS: PENDING REVIEW", "run"),
    SetRun(154, "run", "bold", TRUE),
    SetRun(155, "run", "size", 12),
    SetRun(156, "run", "color", <<0, 51, 102>>),
    AddParagraph(158, "", ""),
    AddParagraph(160, "next_steps", ""),
    AddRun(161, "next_steps", "Next Steps:\n", "_"),
    SetRun(161, "_", "bold", TRUE),
    AddRun(162, "next_steps",
           "1. A loan officer will review your application within 2-3 business days\n"
           \o "2. You may be contacted for additional documentation\n"
           \o "3. Upon approval, you will receive loan terms and documentation to sign\n",
           "_"),
    AddParagraphNow(168, "", "Generated on "),
    AddParagraph(170, "footer_para", ""),
    SetAlignment(171, "footer_para", "CENTER"),
    AddRun(172, "footer_para",
           "This document is confidential and intended solely for the named applicant.\n"
           \o "Please contact us at (555) 123-4567 with any questions.",
           "footer_run"),
    SetRun(176, "footer_run", "size", 8),
    SetRun(177, "footer_run", "color", <<128, 128, 128>>) >>

LoanFooter == <<
    AddParagraph(147, "", Divider),
    AddParagraph(149, "", ""),
    AddParagraph(151, "disclaimer", ""),
    SetAlignment(152, "disclaimer", "CENTER"),
    AddRun(153, "disclaimer", "APPLICATION STATUS: PENDING REVIEW", "run"),
    SetRun(154, "run", "bold", TRUE),
    SetRun(155, "run", "size", 12),
    SetRun(156, "run", "color", <<0, 51, 102>>),
    AddParagraph(158, "", ""),
    AddParagraph(160, "next_steps", ""),
    AddRun(161, "next_steps", "Next Steps:\n", "_"),
    SetRun(161, "_", "bold", TRUE),
    AddRun(162, "next_steps",
           "1. A loan officer will review your application within 2-3 business days\n"
           \o "2. You may be contacted for additional documentation\n"
           \o "3. Upon approval, you will receive loan terms and documentation to sign\n",
           "_"),
    AddParagraph(168, "", ""),
    AddParagraph(170, "footer_para", ""),
    SetAlignment(171, "footer_para", "CENTER"),
    AddRun(172, "footer_para",
           "This document is confidential and intended solely for the named applicant.\n"
           \o "Please contact us at (555) 123-4567 with any questions.",
           "footer_run"),
    SetRun(176, "footer_run", "size", 8),
    SetRun(177, "footer_run", "color", <<128, 128, 128>>) >>

LoanSave == <<
    Makedirs(183),
    Save(186) >>

\* Faulty variant of LoanReport: the summary forgets {{monthlyDebt}}.
LoanReportIncomplete == <<
    PrintPath(188, "[OK] Template created: "),
    PrintLine(189, "\nTemplate includes the following placeholders:"),
    PrintLine(190, "  - {{firstName}}, {{lastName}}"),
    PrintLine(191, "  - {{email}}, {{phone}}, {{dateOfBirth}}, {{ssn}}"),
    PrintLine(192, "  - {{employmentStatus}}, {{employerName}}, {{jobTitle}}"),
    PrintLine(193, "  - {{annualIncome}}"),
    PrintLine(194, "  - {{loanAmount}}, {{loanPurpose}}, {{loanTerm}}"),
    PrintLine(195, "  - {{debtToIncomeRatio.ratio}}, {{debtToIncomeRatio.status}}, "
                   \o "{{debtToIncomeRatio.monthlyIncome}}"),
    PrintLine(196, "\nTemplate ready for use!") >>

LoanReport == <<
    PrintPath(188, "[OK] Template created: "),
    PrintLine(189, "\nTemplate includes the following placeholders:"),
    PrintLine(190, "  - {{firstName}}, {{lastName}}"),
    PrintLine(191, "  - {{email}}, {{phone}}, {{dateOfBirth}}, {{ssn}}"),
    PrintLine(192, "  - {{employmentStatus}}, {{employerName}}, {{jobTitle}}"),
    PrintLine(193, "  - {{annualIncome}}, {{monthlyDebt}}"),
    PrintLine(194, "  - {{loanAmount}}, {{loanPurpose}}, {{loanTerm}}"),
    PrintLine(195, "  - {{debtToIncomeRatio.ratio}}, {{debtToIncomeRatio.status}}, "
                   \o "{{debtToIncomeRatio.monthlyIncome}}"),
    PrintLine(196, "\nTemplate ready for use!") >>

\* Faulty variant of LoanProg: the request section precedes the employment one.
LoanProgReordered ==
    LoanLetterhead \o LoanDate \o LoanTitle \o LoanApplicant \o LoanRequest
    \o LoanEmployment \o LoanAnalysis \o LoanFooter \o LoanSave \o LoanReport

LoanProg ==
    LoanLetterhead \o LoanDate \o LoanTitle \o LoanApplicant \o LoanEmployment
    \o LoanRequest \o LoanAnalysis \o LoanFooter \o LoanSave \o LoanReport

WelcomeBody == <<
    AddHeading(15, "title", "Welcome Letter", 1),
    SetAlignment(16, "title", "CENTER"),
    AddParagraph(19, "", ""),
    AddParagraph(20, "", "Dear {{firstName}} {{lastName}},"),
    AddParagraph(21, "", ""),
    AddParagraph(23, "body",
        "Thank you for completing our workflow! We have successfully received your information."),
    AddParagraph(27, "", ""),
    AddParagraph(28, "", "Your Details:") >>

\* Faulty variant of WelcomeTable: the e-mail cell uses another token name.
WelcomeTableRenamed == <<
    AddTable(31, "table", 3, 2),
    SetStyle(32, "table", "Light Grid Accent 1"),
    SetCellText(35, "table", 0, 0, "First Name:"),
    SetCellText(36, "table", 0, 1, "{{firstName}}"),
    SetCellText(38, "table", 1, 0, "Last Name:"),
    SetCellText(39, "table", 1, 1, "{{lastName}}"),
    SetCellText(41, "table", 2, 0, "Email:"),
    SetCellText(42, "table", 2, 1, "{{emailAddress}}") >>

WelcomeTable == <<
    AddTable(31, "table", 3, 2),
    SetStyle(32, "table", "Light Grid Accent 1"),
    SetCellText(35, "table", 0, 0, "First Name:"),
    SetCellText(36, "table", 0, 1, "{{firstName}}"),
    SetCellText(38, "table", 1, 0, "Last Name:"),
    SetCellText(39, "table", 1, 1, "{{lastName}}"),
    SetCellText(41, "table", 2, 0, "Email:"),
    SetCellText(42, "table", 2, 1, "{{email}}") >>

WelcomeClosing == <<
    AddParagraph(44, "", ""),
    AddParagraph(45, "", "We look forward to working with you!"),
    AddParagraph(47, "", ""),
    AddParagraph(48, "closing", "Best regards,"),
    AddParagraph(49, "", "The VaultLogic Team") >>

WelcomeSave == <<
    Makedirs(53),
    Save(54) >>

WelcomeReport == <<
    PrintPath(56, "Template created: "),
    PrintLine(57, "Template includes placeholders: {{firstName}}, {{lastName}}, {{email}}") >>

WelcomeProg ==
    WelcomeBody \o WelcomeTable \o WelcomeClosing \o WelcomeSave \o WelcomeReport

Prog(g) == IF g = "loan" THEN LoanProg ELSE WelcomeProg

\* output_dir / output_path as the scripts compute them (os.path.join).
\* Faulty variant of OutputDir: the loan script forgets the '..'.
OutputDirInScripts(g) ==
    IF g = "loan"
    THEN Join(ScriptDir, <<"server", "files", "templates">>)
    ELSE Front(Join(ScriptDir, <<"..", "uploads", "templates", "welcome-letter.docx">>))

OutputDir(g) ==
    IF g = "loan"
    THEN Join(ScriptDir, <<"..", "server", "files", "templates">>)
    ELSE Front(Join(ScriptDir, <<"..", "uploads", "templates", "welcome-letter.docx">>))

OutputPath(g) ==
    IF g = "loan"
    THEN Join(OutputDir("loan"), <<"loan-application-summary.docx">>)
    ELSE Join(ScriptDir, <<"..", "uploads", "templates", "welcome-letter.docx">>)

-----------------------------------------------------------------------------
\* The document objects of python-docx, as far as the scripts use them.

\* A run as add_run creates it: no direct formatting.
NewRun(text) == [text |-> text, bold |-> FALSE, size |-> 0, color |-> <<>>]

\* Document.add_paragraph(text, style): a run is added only for a non-empty text.
Paragraph(style, text) ==
    [kind |-> "p", style |-> style, align |-> "none",
     runs |-> IF text = "" THEN <<>> ELSE <<NewRun(text)>>,
     rows |-> 0, cols |-> 0, cells |-> <<>>]

\* Document.add_table(rows, cols): every cell holds one empty paragraph,
\* kept here as the sequence of that paragraph's runs.
Table(rows, cols) ==
    [kind |-> "t", style |-> "none", align |-> "none", runs |-> <<>>,
     rows |-> rows, cols |-> cols,
     cells |-> [rc \in (0 .. rows - 1) \X (0 .. cols - 1) |-> <<>>]]

HeadingStyle(level) == "Heading " \o SubSeq("0123456789", level + 1, level + 1)

DefaultFont == [name |-> "", size |-> 0]

\* A script variable bound to a block (run = 0) or to a run of a block or of
\* a table cell.
BlockRef(i)          == [blk |-> i, r |-> -1, c |-> -1, run |-> 0]
RunRef(i, k)         == [blk |-> i, r |-> -1, c |-> -1, run |-> k]
CellRunRef(i, r, c, k) == [blk |-> i, r |-> r, c |-> c, run |-> k]

Bind(rf, v, ref) ==
    IF v = "" THEN rf
    ELSE [x \in (DOMAIN rf) \cup {v} |-> IF x = v THEN ref ELSE rf[x]]

SetProp(run, prop, val) ==
    CASE prop = "bold"  -> [run EXCEPT !.bold = val]
      [] prop = "size"  -> [run EXCEPT !.size = val]
      [] prop = "color" -> [run EXCEPT !.color = val]

UpdateRun(d, ref, prop, val) ==
    IF ref.r = -1
    THEN [d EXCEPT ![ref.blk].runs[ref.run] = SetProp(@, prop, val)]
    ELSE [d EXCEPT ![ref.blk].cells[<<ref.r, ref.c>>][ref.run] = SetProp(@, prop, val)]

InTable(blk, r, c) == r \in 0 .. blk.rows - 1 /\ c \in 0 .. blk.cols - 1

-----------------------------------------------------------------------------
\* The clock and strftime("%B %d, %Y")

MonthName == <<"January", "February", "March", "April", "May", "June", "July",
               "August", "September", "October", "November", "December">>

Digit(n) == SubSeq("0123456789", n + 1, n + 1)

RECURSIVE NatStr(_)
NatStr(n) == IF n < 10 THEN Digit(n) ELSE NatStr(n \div 10) \o Digit(n % 10)

\* %d is zero-padded to two digits.
TwoDigit(n) == Digit(n \div 10) \o Digit(n % 10)

\* The date `k` days after 30 November 2026.
DateOf(k) ==
    IF k = 0 THEN [year |-> 2026, month |-> 11, day |-> 30]
    ELSE [year |-> 2026, month |-> 12, day |-> k]

Strftime(d) == MonthName[d.month] \o " " \o TwoDigit(d.day) \o ", " \o NatStr(d.year)

-----------------------------------------------------------------------------
\* The file system

Truncated == [state |-> "partial", doc |-> <<>>, font |-> DefaultFont]
Complete(d, f) == [state |-> "complete", doc |-> d, font |-> f]
OldFile == Complete(<<Paragraph("Normal", "Earlier template")>>, DefaultFont)

Exists(p) == Resolve(p) \in dirs \/ Resolve(p) \in DOMAIN files

\* os.mkdir(name) on the directories ds; a new directory is writable.
Mkdir(ds, name) ==
    LET p == Resolve(name) IN
    IF p \in ds THEN [dirs |-> ds, err |-> "FileExistsError"]
    ELSE IF Front(p) \notin ds THEN [dirs |-> ds, err |-> "FileNotFoundError"]
    ELSE IF Front(p) \in locked THEN [dirs |-> ds, err |-> "PermissionError"]
    ELSE [dirs |-> ds \cup {p}, err |-> "none"]

\* Faulty variant of MakedirsOn: os.mkdir in place of os.makedirs.
MkdirOnly(ds, name) == Mkdir(ds, name)

RECURSIVE MakedirsOn(_, _)
\* os.makedirs(name, exist_ok=True): the parents first, then name itself; an
\* error of mkdir is dropped when name is a directory afterwards.
MakedirsOn(ds, name) ==
    LET head == Front(name)
        up   == IF head # <<>> /\ Resolve(head) \notin ds
                THEN MakedirsOn(ds, head)
                ELSE [dirs |-> ds, err |-> "none"]
        upOk == [dirs |-> up.dirs,
                 err |-> IF up.err = "FileExistsError" THEN "none" ELSE up.err]
        made == Mkdir(upOk.dirs, name)
    IN  IF upOk.err # "none" THEN upOk
        ELSE IF made.err # "none" /\ Resolve(name) \in made.dirs
             THEN [dirs |-> made.dirs, err |-> "none"]
             ELSE made

WithFile(fs, p, content) ==
    [x \in (DOMAIN fs) \cup {p} |-> IF x = p THEN content ELSE fs[x]]

\* The set of prefixes of a path, the path included.
Prefixes(p) == {SubSeq(p, 1, k) : k \in 1 .. Len(p)}

RECURSIVE Nearest(_, _)
\* The nearest existing ancestor of p (p itself when it exists).
Nearest(ds, p) == IF p \in ds \/ p = <<>> THEN p ELSE Nearest(ds, Front(p))

\* What a run finds when it starts.
Snapshot(g) ==
    LET d == Resolve(OutputDir(g))
        f == Resolve(OutputPath(g))
    IN  [missing   |-> d \notin dirs,
         ancestorW |-> Nearest(dirs, d) \notin locked,
         hasFile   |-> f \in DOMAIN files,
         fileW     |-> f \in DOMAIN files /\ f \notin roFiles,
         file      |-> IF f \in DOMAIN files THEN files[f] ELSE Truncated]

-----------------------------------------------------------------------------
\* Initial states: no process is running; the repository root and scripts/
\* exist; any prefix of each output directory may exist, at most one
\* directory is unwritable, and an earlier output file may be present
\* (writable or read-only).

BaseDirs == {<<>>, ScriptDir}

NoRefs == [x \in {} |-> BlockRef(0)]

Init ==
    /\ running = "none"
    /\ pc = 0
    /\ doc = <<>>
    /\ refs = NoRefs
    /\ styles = DefaultFont
    /\ fh = "closed"
    /\ saves = [g \in Generators |-> 0]
    /\ \E kl \in 0 .. Len(Resolve(OutputDir("loan"))),
          kw \in 0 .. Len(Resolve(OutputDir("welcome"))) :
          dirs = BaseDirs
                 \cup {SubSeq(Resolve(OutputDir("loan")), 1, k) : k \in 1 .. kl}
                 \cup {SubSeq(Resolve(OutputDir("welcome")), 1, k) : k \in 1 .. kw}
    /\ locked \in {S \in SUBSET (dirs \ {ScriptDir}) : Cardinality(S) <= 1}
    /\ \E F \in SUBSET {Resolve(OutputPath(g)) : g \in Generators} :
          /\ \A f \in F : Front(f) \in dirs
          /\ files = [f \in F |-> OldFile]
    /\ roFiles \in SUBSET (DOMAIN files)
    /\ today = 0
    /\ runs = 0
    /\ exit = [g \in Generators |-> -1]
    /\ err = [g \in Generators |-> "none"]
    /\ stdout = [g \in Generators |-> <<>>]
    /\ pre = [g \in Generators |-> Snapshot(g)]
    /\ prev = [g \in Generators |-> <<>>]

-----------------------------------------------------------------------------
\* The steps of a process

Live == running # "none" /\ pc \in 1 .. Len(Prog(running))
Cur == Prog(running)[pc]
At(op) == Live /\ Cur.op = op

\* Faulty variant of Raise: the exception is caught and the script exits 0.
Swallow(e) ==
    /\ running' = "none"
    /\ pc' = 0
    /\ doc' = <<>>
    /\ refs' = NoRefs
    /\ styles' = DefaultFont
    /\ fh' = "closed"
    /\ exit' = [exit EXCEPT ![running] = 0]
    /\ err' = [err EXCEPT ![running] = e]

\* An uncaught exception: the interpreter exits with status 1 and the
\* document object is gone.
Raise(e) ==
    /\ running' = "none"
    /\ pc' = 0
    /\ doc' = <<>>
    /\ refs' = NoRefs
    /\ styles' = DefaultFont
    /\ fh' = "closed"
    /\ exit' = [exit EXCEPT ![running] = 1]
    /\ err' = [err EXCEPT ![running] = e]

\* The statement completed: go on to the next one.
Advance ==
    /\ running' = running
    /\ pc' = pc + 1
    /\ fh' = fh
    /\ exit' = exit
    /\ err' = err

\* python <script>: doc = Document()
Start(g) ==
    /\ running = "none"
    /\ runs < MaxRuns
    /\ running' = g
    /\ pc' = 1
    /\ doc' = <<>>
    /\ refs' = NoRefs
    /\ styles' = DefaultFont
    /\ fh' = "closed"
    /\ runs' = runs + 1
    /\ saves' = [saves EXCEPT ![g] = 0]
    /\ exit' = [exit EXCEPT ![g] = -1]
    /\ err' = [err EXCEPT ![g] = "none"]
    /\ stdout' = [stdout EXCEPT ![g] = <<>>]
    /\ pre' = [pre EXCEPT ![g] = Snapshot(g)]
    /\ UNCHANGED <<dirs, locked, files, roFiles, today, prev>>

\* A day passes between two runs.
Tick ==
    /\ running = "none"
    /\ today < MaxDays
    /\ today' = today + 1
    /\ UNCHANGED <<running, pc, doc, refs, styles, fh, saves, dirs, locked, files,
                   roFiles, runs, exit, err, stdout, pre, prev>>

set_font ==
    /\ At("set_font")
    /\ styles' = IF Cur.rvar = "name" THEN [styles EXCEPT !.name = Cur.val]
                 ELSE [styles EXCEPT !.size = Cur.val]
    /\ Advance
    /\ UNCHANGED <<doc, refs, saves, dirs, locked, files, roFiles, today, runs,
                   stdout, pre, prev>>

add_paragraph ==
    /\ At("add_paragraph")
    /\ LET text == IF Cur.val = "now" THEN Cur.text \o Strftime(DateOf(today))
                   ELSE Cur.text
       IN  doc' = Append(doc, Paragraph("Normal", text))
    /\ refs' = Bind(refs, Cur.var, BlockRef(Len(doc) + 1))
    /\ Advance
    /\ UNCHANGED <<styles, saves, dirs, locked, files, roFiles, today, runs,
                   stdout, pre, prev>>

add_heading ==
    /\ At("add_heading")
    /\ doc' = Append(doc, Paragraph(HeadingStyle(Cur.val), Cur.text))
    /\ refs' = Bind(refs, Cur.var, BlockRef(Len(doc) + 1))
    /\ Advance
    /\ UNCHANGED <<styles, saves, dirs, locked, files, roFiles, today, runs,
                   stdout, pre, prev>>

add_table ==
    /\ At("add_table")
    /\ doc' = Append(doc, Table(Cur.r, Cur.c))
    /\ refs' = Bind(refs, Cur.var, BlockRef(Len(doc) + 1))
    /\ Advance
    /\ UNCHANGED <<styles, saves, dirs, locked, files, roFiles, today, runs,
                   stdout, pre, prev>>

set_alignment ==
    /\ At("set_alignment")
    /\ doc' = [doc EXCEPT ![refs[Cur.var].blk].align = Cur.val]
    /\ Advance
    /\ UNCHANGED <<refs, styles, saves, dirs, locked, files, roFiles, today, runs,
                   stdout, pre, prev>>

set_style ==
    /\ At("set_style")
    /\ doc' = [doc EXCEPT ![refs[Cur.var].blk].style = Cur.val]
    /\ Advance
    /\ UNCHANGED <<refs, styles, saves, dirs, locked, files, roFiles, today, runs,
                   stdout, pre, prev>>

add_run ==
    /\ At("add_run")
    /\ LET i == refs[Cur.var].blk IN
       /\ doc' = [doc EXCEPT ![i].runs = Append(@, NewRun(Cur.text))]
       /\ refs' = Bind(refs, Cur.rvar, RunRef(i, Len(doc[i].runs) + 1))
    /\ Advance
    /\ UNCHANGED <<styles, saves, dirs, locked, files, roFiles, today, runs,
                   stdout, pre, prev>>

set_run ==
    /\ At("set_run")
    /\ doc' = UpdateRun(doc, refs[Cur.rvar], Cur.var, Cur.val)
    /\ Advance
    /\ UNCHANGED <<refs, styles, saves, dirs, locked, files, roFiles, today, runs,
                   stdout, pre, prev>>

\* table.rows[r].cells[c].text = text: an index outside the table raises
\* IndexError; the cell's content becomes one run holding the text.
set_cell_text ==
    /\ At("set_cell_text")
    /\ LET i == refs[Cur.var].blk IN
       IF InTable(doc[i], Cur.r, Cur.c)
       THEN /\ doc' = [doc EXCEPT ![i].cells[<<Cur.r, Cur.c>>] = <<NewRun(Cur.text)>>]
            /\ refs' = refs
            /\ styles' = styles
            /\ Advance
       ELSE Raise("IndexError")
    /\ UNCHANGED <<saves, dirs, locked, files, roFiles, today, runs, stdout, pre, prev>>

\* table.rows[r].cells[c].paragraphs[0].add_run(text)
cell_add_run ==
    /\ At("cell_add_run")
    /\ LET i == refs[Cur.var].blk IN
       IF InTable(doc[i], Cur.r, Cur.c)
       THEN /\ doc' = [doc EXCEPT ![i].cells[<<Cur.r, Cur.c>>] = Append(@, NewRun(Cur.text))]
            /\ refs' = Bind(refs, Cur.rvar,
                            CellRunRef(i, Cur.r, Cur.c,
                                       Len(doc[i].cells[<<Cur.r, Cur.c>>]) + 1))
            /\ styles' = styles
            /\ Advance
       ELSE Raise("IndexError")
    /\ UNCHANGED <<saves, dirs, locked, files, roFiles, today, runs, stdout, pre, prev>>

\* os.makedirs(output_dir, exist_ok=True)
makedirs ==
    /\ At("makedirs")
    /\ LET res == MakedirsOn(dirs, OutputDir(running)) IN
       /\ dirs' = res.dirs
       /\ IF res.err = "none"
          THEN Advance /\ UNCHANGED <<doc, refs, styles>>
          ELSE Raise(res.err)
    /\ UNCHANGED <<saves, locked, files, roFiles, today, runs, stdout, pre, prev>>

\* doc.save(output_path), first half: the package writer opens the path for
\* writing, which creates the file or truncates the one that is there.
save_open ==
    /\ At("save")
    /\ fh = "closed"
    /\ saves' = [saves EXCEPT ![running] = @ + 1]
    /\ LET p == Resolve(OutputPath(running)) IN
       IF Front(p) \notin dirs
       THEN Raise("FileNotFoundError") /\ files' = files
       ELSE IF p \in DOMAIN files /\ p \in roFiles
       THEN Raise("PermissionError") /\ files' = files
       ELSE IF p \notin DOMAIN files /\ Front(p) \in locked
       THEN Raise("PermissionError") /\ files' = files
       ELSE /\ files' = WithFile(files, p, Truncated)
            /\ fh' = "open"
            /\ UNCHANGED <<running, pc, doc, refs, styles, exit, err>>
    /\ UNCHANGED <<dirs, locked, roFiles, today, runs, stdout, pre, prev>>

\* doc.save(output_path), second half: the parts are written and the file is
\* closed, or the write fails for lack of space and leaves what was written.
save_write ==
    /\ At("save")
    /\ fh = "open"
    /\ \/ /\ files' = WithFile(files, Resolve(OutputPath(running)), Complete(doc, styles))
          /\ prev' = [prev EXCEPT ![running] = Append(@, doc)]
          /\ running' = running
          /\ pc' = pc + 1
          /\ fh' = "closed"
          /\ UNCHANGED <<doc, refs, styles, exit, err>>
       \/ /\ Raise("OSError: No space left on device")
          /\ UNCHANGED <<files, prev>>
    /\ UNCHANGED <<saves, dirs, locked, roFiles, today, runs, stdout, pre>>

print ==
    /\ At("print")
    /\ LET text == IF Cur.val = "path" THEN Cur.text \o PathStr(OutputPath(running))
                   ELSE Cur.text
       IN  stdout' = [stdout EXCEPT ![running] = Append(@, text)]
    /\ Advance
    /\ UNCHANGED <<doc, refs, styles, saves, dirs, locked, files, roFiles, today,
                   runs, pre, prev>>

\* The script ran off its last statement: exit status 0.
finish ==
    /\ running # "none"
    /\ pc = Len(Prog(running)) + 1
    /\ running' = "none"
    /\ pc' = 0
    /\ doc' = <<>>
    /\ refs' = NoRefs
    /\ styles' = DefaultFont
    /\ fh' = "closed"
    /\ exit' = [exit EXCEPT ![running] = 0]
    /\ UNCHANGED <<saves, dirs, locked, files, roFiles, today, runs, err, stdout,
                   pre, prev>>

Next ==
    \/ \E g \in Generators : Start(g)
    \/ Tick
    \/ set_font
    \/ add_paragraph
    \/ add_heading
    \/ add_table
    \/ set_alignment
    \/ set_style
    \/ add_run
    \/ set_run
    \/ set_cell_text
    \/ cell_add_run
    \/ makedirs
    \/ save_open
    \/ save_write
    \/ print
    \/ finish

Spec == Init /\ [][Next]_vars

-----------------------------------------------------------------------------
\* Reading a document back: texts, placeholder tokens, tables, headings.

RECURSIVE RunsText(_)
\* The text of a paragraph: its runs' texts in order.
RunsText(rs) == IF rs = <<>> THEN "" ELSE rs[1].text \o RunsText(Tail(rs))

IsAt(s, i, pat) == i + Len(pat) - 1 <= Len(s) /\ SubSeq(s, i, i + Len(pat) - 1) = pat

\* The first position >= i at which pat occurs in s, or 0.
FindFrom(s, pat, i) ==
    LET at == {k \in i .. Len(s) : IsAt(s, k, pat)} IN
    IF at = {} THEN 0 ELSE CHOOSE k \in at : \A m \in at : k <= m

RECURSIVE TokensFrom(_, _)
\* The names of the placeholders of s from position i on.  A placeholder is
\* the literal text {{name}}, the form used by the scripts' cell texts and by
\* the summaries they print: an opening "{{", the name, the next "}}".
TokensFrom(s, i) ==
    LET o == FindFrom(s, "{{", i) IN
    IF o = 0 THEN {}
    ELSE LET c == FindFrom(s, "}}", o + 2) IN
         IF c = 0 THEN {}
         ELSE {SubSeq(s, o + 2, c - 1)} \cup TokensFrom(s, c + 2)

Tokens(s) == TokensFrom(s, 1)

\* The texts of a block: a paragraph's text, or the texts of a table's cells.
BlockTexts(b) ==
    IF b.kind = "p" THEN {RunsText(b.runs)}
    ELSE {RunsText(b.cells[rc]) : rc \in DOMAIN b.cells}

DocTokens(d) == UNION {UNION {Tokens(t) : t \in BlockTexts(d[i])} : i \in 1 .. Len(d)}

LinesTokens(ls) == UNION {Tokens(ls[i]) : i \in 1 .. Len(ls)}

Spacer(b) == b.kind = "p" /\ b.runs = <<>>

RECURSIVE Select(_, _)
\* The blocks of d that are of the given kinds, in order; kind "body" keeps
\* every block but the empty spacer paragraphs.
Select(d, what) ==
    IF d = <<>> THEN <<>>
    ELSE LET b == d[1]
             keep == CASE what = "body"    -> ~Spacer(b)
                       [] what = "table"   -> b.kind = "t"
                       [] what = "heading" -> b.kind = "p" /\ IsAt(b.style, 1, "Heading")
         IN  (IF keep THEN <<b>> ELSE <<>>) \o Select(Tail(d), what)

Dims(d) == [i \in 1 .. Len(Select(d, "table")) |->
                <<Select(d, "table")[i].rows, Select(d, "table")[i].cols>>]

HeadingTexts(d) == [i \in 1 .. Len(Select(d, "heading")) |->
                        RunsText(Select(d, "heading")[i].runs)]

\* The running script has just returned from doc.save.
JustSaved(g) == running = g /\ pc > 1 /\ pc <= Len(Prog(g)) + 1 /\ Prog(g)[pc - 1].op = "save"

\* The running script has executed its last statement.
AtEnd(g) == running = g /\ pc = Len(Prog(g)) + 1

OnDisk(g) == files[Resolve(OutputPath(g))]
HasFile(g) == Resolve(OutputPath(g)) \in DOMAIN files
Ended(g) == exit[g] >= 0

-----------------------------------------------------------------------------
\* C1: at the moment the loan document is saved, the placeholder tokens found
\* in its paragraphs and table cells are exactly the seventeen listed ones.

LoanTokens ==
    {"firstName", "lastName", "email", "phone", "dateOfBirth", "ssn",
     "employmentStatus", "employerName", "jobTitle", "annualIncome", "monthlyDebt",
     "loanAmount", "loanPurpose", "loanTerm", "debtToIncomeRatio.ratio",
     "debtToIncomeRatio.status", "debtToIncomeRatio.monthlyIncome"}

C1_LoanTokens ==
    JustSaved("loan") =>
        /\ HasFile("loan")
        /\ OnDisk("loan").state = "complete"
        /\ DocTokens(OnDisk("loan").doc) = LoanTokens
        /\ Cardinality(DocTokens(OnDisk("loan").doc)) = 17

C1_Witness ==
    /\ JustSaved("loan")
    /\ "debtToIncomeRatio.status" \in DocTokens(OnDisk("loan").doc)

\* C2: at the moment the welcome letter is saved, its placeholder tokens are
\* exactly firstName, lastName, email; they come from the greeting paragraph
\* and the table, and no other block holds a token.

WelcomeTokens == {"firstName", "lastName", "email"}

TokenBlocks(d) == {i \in 1 .. Len(d) : UNION {Tokens(t) : t \in BlockTexts(d[i])} # {}}

C2_WelcomeTokens ==
    JustSaved("welcome") =>
        /\ HasFile("welcome")
        /\ OnDisk("welcome").state = "complete"
        /\ LET d == OnDisk("welcome").doc IN
           /\ DocTokens(d) = WelcomeTokens
           /\ \A i \in TokenBlocks(d) :
                \/ d[i].kind = "t"
                \/ RunsText(d[i].runs) = "Dear {{firstName}} {{lastName}},"

C2_Witness ==
    /\ JustSaved("welcome")
    /\ Cardinality(TokenBlocks(OnDisk("welcome").doc)) = 2

-----------------------------------------------------------------------------
\* C3: the loan document, when saved, holds exactly four tables, 5x2, 4x2, 3x2 and
\* 3x2 in order, under the headings Applicant Information, Employment
\* Information, Loan Request Details and Financial Analysis; the welcome
\* letter, when saved, holds exactly one 3x2 table; no cell index used by a script
\* falls outside its table (no run ends in IndexError) and every cell of every
\* table holds text.

CellsFilled(d) ==
    \A i \in 1 .. Len(d) :
        d[i].kind = "t" =>
            /\ DOMAIN d[i].cells = (0 .. d[i].rows - 1) \X (0 .. d[i].cols - 1)
            /\ \A rc \in DOMAIN d[i].cells : RunsText(d[i].cells[rc]) # ""

\* The text of the block right before the k-th table.
TableCaption(d, k) ==
    LET at == {i \in 1 .. Len(d) : d[i].kind = "t" /\ Len(Select(SubSeq(d, 1, i), "table")) = k}
        i  == CHOOSE j \in at : TRUE
    IN  IF i = 1 THEN "" ELSE RunsText(d[i - 1].runs)

C3_TableDims ==
    /\ \A g \in Generators : err[g] # "IndexError"
    /\ JustSaved("loan") =>
         LET d == OnDisk("loan").doc IN
         /\ d = prev["loan"][Len(prev["loan"])]
         /\ Dims(d) = << <<5, 2>>, <<4, 2>>, <<3, 2>>, <<3, 2>> >>
         /\ [t \in 1 .. 4 |-> TableCaption(d, t)] =
                <<"Applicant Information", "Employment Information",
                  "Loan Request Details", "Financial Analysis">>
         /\ CellsFilled(d)
    /\ JustSaved("welcome") =>
         LET d == OnDisk("welcome").doc IN
         /\ d = prev["welcome"][Len(prev["welcome"])]
         /\ Dims(d) = << <<3, 2>> >>
         /\ CellsFilled(d)

C3_Witness ==
    /\ Len(prev["loan"]) > 0
    /\ Len(prev["welcome"]) > 0
    /\ exit["loan"] = 0
    /\ exit["welcome"] = 0

-----------------------------------------------------------------------------
\* C4 (as claimed): a run that starts with its output directory missing, below
\* a writable nearest existing ancestor, ends with every directory of the
\* output path existing and the output file written.

NoSpace == "OSError: No space left on device"

DirsExist(g) == Prefixes(Resolve(OutputDir(g))) \subseteq dirs

Written(g) == HasFile(g) /\ OnDisk(g).state = "complete" /\ Len(prev[g]) > 0
              /\ OnDisk(g).doc = prev[g][Len(prev[g])]

FromMissingDir(g) == Ended(g) /\ pre[g].missing /\ pre[g].ancestorW

-----------------------------------------------------------------------------
\* C5 (as claimed): a run whose target directory is unwritable ends with a
\* non-zero status, and after every failing run the output path holds no file
\* or a complete document.

TargetUnwritable(g) == ~pre[g].ancestorW

C5_AsClaimed ==
    \A g \in Generators :
        Ended(g) =>
            /\ TargetUnwritable(g) => exit[g] # 0
            /\ exit[g] # 0 => (~HasFile(g) \/ OnDisk(g).state = "complete")

\* C5 (amended): a run whose target directory is unwritable (or cannot be
\* created) and does not already hold a writable output file ends with status
\* 1 and a PermissionError; a run ends with a non-zero status exactly when an
\* exception ended it; after a run that failed with a permission error the
\* output path holds no file, or the complete file that was there before the
\* run, unchanged; a failed run leaves a truncated file only when the write
\* itself failed for lack of space.
C5_FailureLeavesNoPartialFile ==
    \A g \in Generators :
        Ended(g) =>
            /\ (exit[g] = 1) = (err[g] # "none")
            /\ exit[g] \in {0, 1}
            /\ (TargetUnwritable(g) /\ ~pre[g].fileW) =>
                    exit[g] = 1 /\ err[g] = "PermissionError"
            /\ err[g] = "PermissionError" =>
                    /\ HasFile(g) = pre[g].hasFile
                    /\ HasFile(g) => OnDisk(g) = pre[g].file /\ OnDisk(g).state = "complete"
            /\ (exit[g] = 1 /\ HasFile(g) /\ OnDisk(g).state = "partial") =>
                    err[g] = NoSpace

C5_Witness ==
    /\ Ended("loan")
    /\ TargetUnwritable("loan")
    /\ exit["loan"] = 1
    /\ err["loan"] = "PermissionError"
    /\ HasFile("loan")
    /\ OnDisk("loan") = OldFile

-----------------------------------------------------------------------------
\* C6: the document a run saves and every document saved by an earlier run of
\* the same generator (so any two of them, save by save) have the same
\* tables, the same heading texts and the same placeholder tokens; block for
\* block they are equal, except that the date line of the loan document (its
\* only "Date: " paragraph) may differ; and the output path holds the document
\* of the latest save, the earlier one having been overwritten.

IsDateLine(b) == b.kind = "p" /\ IsAt(RunsText(b.runs), 1, "Date: ")

SameTemplate(g, a, b) ==
    /\ Len(a) = Len(b)
    /\ Select(a, "table") = Select(b, "table")
    /\ HeadingTexts(a) = HeadingTexts(b)
    /\ \A k \in 1 .. Len(a) :
         a[k] # b[k] => g = "loan" /\ IsDateLine(a[k]) /\ IsDateLine(b[k])
    /\ Cardinality({k \in 1 .. Len(a) : IsDateLine(a[k])}) = (IF g = "loan" THEN 1 ELSE 0)

C6_RerunSameTemplate ==
    \A g \in Generators :
        /\ JustSaved(g) =>
              LET n == Len(prev[g]) IN
              /\ \A i \in 1 .. n - 1 :
                    /\ SameTemplate(g, prev[g][i], prev[g][n])
                    /\ DocTokens(prev[g][i]) = DocTokens(prev[g][n])
              /\ DOMAIN files \subseteq {Resolve(OutputPath(h)) : h \in Generators}
        /\ (Len(prev[g]) > 0 /\ HasFile(g) /\ OnDisk(g).state = "complete") =>
                OnDisk(g).doc = prev[g][Len(prev[g])]

C6_Witness ==
    /\ JustSaved("loan")
    /\ Len(prev["loan"]) = 2
    /\ prev["loan"][1] # prev["loan"][2]
    /\ OnDisk("loan").doc = prev["loan"][2]

-----------------------------------------------------------------------------
\* C7: the saved loan document, its empty spacer paragraphs left out, is in
\* order: the centered bold letterhead title, the contact sub-header, a
\* divider, the right-aligned date stamp, the centered level-1 heading 'LOAN
\* APPLICATION SUMMARY', the four level-2 headings each immediately followed by
\* its table, a divider, the centered bold status line, the Next Steps block
\* and, last, the confidentiality footer.

Text(b) == RunsText(b.runs)
FirstBold(b) == b.runs # <<>> /\ b.runs[1].bold

IsLetterhead(b) ==
    b.kind = "p" /\ b.align = "CENTER" /\ FirstBold(b) /\ Text(b) = "FINANCIAL SERVICES COMPANY"
IsContact(b) ==
    b.kind = "p" /\ b.align = "CENTER" /\ IsAt(Text(b), 1, "123 Main Street")
IsDivider(b) == b.kind = "p" /\ Text(b) = Divider
IsDateStamp(b) == IsDateLine(b) /\ b.align = "RIGHT"
IsTitle(b) ==
    b.kind = "p" /\ b.style = "Heading 1" /\ b.align = "CENTER"
    /\ Text(b) = "LOAN APPLICATION SUMMARY"
IsSection(b, name) == b.kind = "p" /\ b.style = "Heading 2" /\ Text(b) = name
IsTable(b, rows) == b.kind = "t" /\ b.rows = rows /\ b.cols = 2
IsStatus(b) ==
    b.kind = "p" /\ b.align = "CENTER" /\ FirstBold(b)
    /\ Text(b) = "APPLICATION STATUS: PENDING REVIEW"
IsNextSteps(b) ==
    b.kind = "p" /\ Len(b.runs) = 2 /\ FirstBold(b) /\ b.runs[1].text = "Next Steps:\n"
    /\ IsAt(b.runs[2].text, 1, "1. A loan officer")
IsFooter(b) ==
    b.kind = "p" /\ b.align = "CENTER" /\ IsAt(Text(b), 1, "This document is confidential")

\* Heading and table are neighbours in the document itself, spacers included.
Adjacent(d, name, rows) ==
    \E i \in 1 .. Len(d) - 1 : IsSection(d[i], name) /\ IsTable(d[i + 1], rows)

C7_LoanBlockOrder ==
    JustSaved("loan") =>
        LET d == OnDisk("loan").doc
            b == Select(d, "body")
        IN  /\ Len(b) = 17
            /\ IsLetterhead(b[1])
            /\ IsContact(b[2])
            /\ IsDivider(b[3])
            /\ IsDateStamp(b[4])
            /\ IsTitle(b[5])
            /\ IsSection(b[6], "Applicant Information")   /\ IsTable(b[7], 5)
            /\ IsSection(b[8], "Employment Information")  /\ IsTable(b[9], 4)
            /\ IsSection(b[10], "Loan Request Details")   /\ IsTable(b[11], 3)
            /\ IsSection(b[12], "Financial Analysis")     /\ IsTable(b[13], 3)
            /\ IsDivider(b[14])
            /\ IsStatus(b[15])
            /\ IsNextSteps(b[16])
            /\ IsFooter(b[17])
            /\ IsFooter(d[Len(d)])
            /\ Adjacent(d, "Applicant Information", 5)
            /\ Adjacent(d, "Employment Information", 4)
            /\ Adjacent(d, "Loan Request Details", 3)
            /\ Adjacent(d, "Financial Analysis", 3)

C7_Witness ==
    /\ JustSaved("loan")
    /\ Len(OnDisk("loan").doc) > 17
    /\ IsFooter(OnDisk("loan").doc[Len(OnDisk("loan").doc)])

-----------------------------------------------------------------------------
\* C8 (as claimed): taken relative to the directory holding the scripts, the
\* output paths are server/files/templates/loan-application-summary.docx and
\* uploads/templates/welcome-letter.docx: a successful run leaves its file
\* there.

RelativePath(g) ==
    IF g = "loan"
    THEN <<"server", "files", "templates", "loan-application-summary.docx">>
    ELSE <<"uploads", "templates", "welcome-letter.docx">>

C8_AsClaimed ==
    \A g \in Generators :
        exit[g] = 0 => Join(ScriptDir, RelativePath(g)) \in DOMAIN files

\* C8 (amended): the output paths are those two taken relative to the PARENT
\* of the directory holding the scripts (the scripts join '..' to their own
\* directory); a successful run leaves its complete file there and no file is
\* ever created anywhere else; the two paths are distinct, and a run of one
\* generator never creates or changes a directory or file on the other's
\* output path.

Other(g) == IF g = "loan" THEN "welcome" ELSE "loan"

Tree(g) == Prefixes(Resolve(OutputDir(g))) \cup {Resolve(OutputPath(g))}

Untouched(g) ==
    \A p \in Tree(g) :
        /\ (p \in dirs') = (p \in dirs)
        /\ (p \in DOMAIN files') = (p \in DOMAIN files)
        /\ p \in DOMAIN files => files'[p] = files[p]

PathsAsBuilt ==
    /\ \A g \in Generators :
        /\ Resolve(OutputPath(g)) = Join(Front(ScriptDir), RelativePath(g))
        /\ Resolve(OutputDir(g)) = Front(Resolve(OutputPath(g)))
        /\ exit[g] = 0 => HasFile(g) /\ OnDisk(g).state = "complete"
    /\ DOMAIN files \subseteq {Join(Front(ScriptDir), RelativePath(g)) : g \in Generators}
    /\ Tree("loan") \cap Tree("welcome") = {}

C8_OutputPaths ==
    /\ []PathsAsBuilt
    /\ [][running # "none" => Untouched(Other(running))]_vars

C8_Witness ==
    /\ exit["loan"] = 0
    /\ exit["welcome"] = 0
    /\ DOMAIN files = {Join(Front(ScriptDir), RelativePath(g)) : g \in Generators}
    /\ \A g \in Generators : pre[g].missing

-----------------------------------------------------------------------------
\* C9: a script prints only after its save has completed: whenever it has
\* printed anything, doc.save ran once in this run without error and the
\* output file is the complete document; a run that failed printed nothing;
\* the first line printed ends with the output path the script computed; and
\* when the script has printed its last line, the placeholder tokens named in
\* its output are exactly the tokens of the document it saved.

EndsWith(s, suffix) ==
    Len(suffix) <= Len(s) /\ SubSeq(s, Len(s) - Len(suffix) + 1, Len(s)) = suffix

-----------------------------------------------------------------------------
\* C10 (as claimed): once a block has been appended to the document, no later
\* step of the run changes it.

InRun == running # "none" /\ running' = running

C10_AsClaimed ==
    [][InRun => \A i \in 1 .. Len(doc) : doc'[i] = doc[i]]_vars

\* C10 (amended): a block is changed only while it is the last block of the
\* document (the scripts append an empty paragraph or table and then fill and
\* format it); once a later block has been appended it never changes again,
\* and appending adds exactly one block at the end.  Nothing changes the
\* document once doc.save has been called; doc.save is called at most once
\* in a run and exactly once in a run that exits with status 0.

SavedOnce == \A g \in Generators : saves[g] <= 1 /\ (exit[g] = 0 => saves[g] = 1)

SequentialConstruction ==
    InRun =>
        /\ Len(doc') \in {Len(doc), Len(doc) + 1}
        /\ \A i \in 1 .. Len(doc) - 1 : doc'[i] = doc[i]
        /\ (Len(doc') = Len(doc) + 1 /\ Len(doc) > 0) => doc'[Len(doc)] = doc[Len(doc)]
        /\ saves[running] > 0 => doc' = doc

C10_SequentialConstruction ==
    /\ []SavedOnce
    /\ [][SequentialConstruction]_vars

C10_Witness ==
    /\ running = "loan"
    /\ Len(doc) = 1
    /\ doc[1].align = "CENTER"
    /\ Len(doc[1].runs) = 1
    /\ doc[1].runs[1].bold

====
